---------------------------- MODULE Spec2Model ----------------------------
(***************************************************************************)
(* Model of the Agent class of master.ipynb (Step 5 - Step 7): the         *)
(* reason-then-act loop Agent.run and the output parser                    *)
(* Agent._get_tool_and_input.                                              *)
(*                                                                         *)
(* Text is a sequence of tokens.  A token is either one character          *)
(* (" ", "\n", "\t", ":", "[", "]", the double quote) or one word          *)
(* ("Action", "Input", "Final", "Answer", "Proxy", "Statement", "x", ...). *)
(* No word of the alphabet contains another word, a punctuation character  *)
(* or white space, so a literal such as "Final Answer:" occurs in a text   *)
(* at the character level exactly where its tokens occur at the token      *)
(* level, and str.strip / the regular expression cut a text only at token  *)
(* boundaries.                                                             *)
(***************************************************************************)
EXTENDS Integers, Sequences, FiniteSets, TLC

VARIABLES
    tools,               \* self.tools: the names of the registered tools
    max_loops,           \* self.max_loops
    pc,                  \* the position of run
    num_loops,           \* run's local num_loops
    previous_responses,  \* run's local previous_responses
    curr_prompt,         \* run's local curr_prompt
    output,              \* the completion text of the current iteration
    tool,                \* the parsed tool name
    tool_input,          \* the parsed tool input
    tool_result,         \* what the tool returned
    result,              \* what run returned (None when it fell out of the loop)
    error,               \* the exception that left run, or NoError
    llm_calls,           \* calls of self.llm.generate made by this run
    tool_calls,          \* calls of Tool.run made by this run
    completions,         \* the texts self.llm.generate returned to this run
    question,            \* the argument of run
    prompt,              \* the notebook's global prompt
    self_prompt,         \* self.prompt, the field of the agent
    prompts,             \* the prompts this run passed to self.llm.generate
    tool_returns,        \* calls of Tool.run that returned to this run
    tool_results,        \* what the tools returned to this run
    runs,                \* calls of run made on the agent
    first_run            \* what the first call of run did, once a second is made

vars == <<tools, max_loops, pc, num_loops, previous_responses, curr_prompt,
          output, tool, tool_input, tool_result, result, error,
          llm_calls, tool_calls, completions,
          question, prompt, self_prompt, prompts, tool_returns, tool_results,
          runs, first_run>>

----------------------------------------------------------------------------
(* Bounds of the model *)

MaxLoops == 3
MaxChunks == 5
MaxName == 5
MaxInput == 4
MaxSessionLoops == 2

----------------------------------------------------------------------------
(* The tokens of the notebook *)

SP == " "
NL == "\n"
TAB == "\t"
QUOTE == "\""
LBRACKET == "["
RBRACKET == "]"

FINAL_ANSWER_TOKEN == <<"Final", SP, "Answer", ":">>
OBSERVATION_TOKEN == <<"Observation", ":">>
THOUGHT_TOKEN == <<"Thought", ":">>

\* the literal 'Final Answer' run compares the parsed tool name with
FinalAnswerName == <<"Final", SP, "Answer">>
\* the literals of the regular expression
ActionLabel == <<"Action", ":", SP>>
ActionInputLabel == <<"Action", SP, "Input", ":">>

\* what str.strip() and the regular expression's \s take for white space
Whitespace == {SP, NL, TAB}

None == "None"
NoError == [type |-> "NoError"]

----------------------------------------------------------------------------
(* Python's string operations on token sequences *)

SetMin(S) == CHOOSE m \in S : \A n \in S : m <= n
SetMax(S) == CHOOSE m \in S : \A n \in S : n <= m

\* pat occurs in s at position i
IsAt(pat, s, i) ==
    /\ i >= 1
    /\ i + Len(pat) - 1 <= Len(s)
    /\ \A k \in 1..Len(pat) : s[i + k - 1] = pat[k]

\* pat in s
Contains(pat, s) == \E i \in 1..Len(s) : IsAt(pat, s, i)

\* s.strip(chars)
Strip(s, chars) ==
    LET keep == {i \in 1..Len(s) : s[i] \notin chars}
    IN  IF keep = {} THEN <<>> ELSE SubSeq(s, SetMin(keep), SetMax(keep))

\* s[from:].split(sep)[-1]: split scans left to right and takes the
\* occurrences of sep that do not overlap
RECURSIVE SplitLastFrom(_, _, _)
SplitLastFrom(s, sep, from) ==
    LET occ == {i \in from..Len(s) : IsAt(sep, s, i)}
    IN  IF occ = {} THEN SubSeq(s, from, Len(s))
        ELSE SplitLastFrom(s, sep, SetMin(occ) + Len(sep))

SplitLast(s, sep) == SplitLastFrom(s, sep, 1)

\* the length of the run of characters of chars that starts at position p
RunLength(s, p, chars) ==
    LET stop == {i \in p..Len(s) : s[i] \notin chars}
    IN  IF stop = {} THEN Len(s) + 1 - p ELSE SetMin(stop) - p

\* '\n'.join(seq)
RECURSIVE Join(_)
Join(seq) ==
    IF seq = <<>> THEN <<>>
    ELSE IF Len(seq) = 1 THEN seq[1]
    ELSE seq[1] \o <<NL>> \o Join(Tail(seq))

----------------------------------------------------------------------------
(* The re.search of _get_tool_and_input under re.DOTALL, as the            *)
(* backtracking matcher runs it.  The pattern is, piece by piece:           *)
(*   "Action: "   an optional "["   a lazy group 1 of any characters        *)
(*   an optional "]"   any number of "\n"   "Action Input:"                 *)
(*   any white space   a greedy group 2 of any characters                   *)

\* optional "]", newlines, "Action Input:" matched at position q: the position after the
\* label, or 0 when it does not match.  The optional bracket and the
\* newlines are greedy: taken first, given back only when the rest fails.
TailEndWith(s, q, rb) ==
    LET p  == q + rb
        n  == RunLength(s, p, {NL})
        ks == {k \in 0..n : IsAt(ActionInputLabel, s, p + k)}
    IN  IF ks = {} THEN 0 ELSE p + SetMax(ks) + Len(ActionInputLabel)

TailEnd(s, q) ==
    IF q <= Len(s) /\ s[q] = RBRACKET /\ TailEndWith(s, q, 1) # 0
    THEN TailEndWith(s, q, 1)
    ELSE TailEndWith(s, q, 0)

\* the match with "Action: " at position st and group 1 starting at gstart:
\* group 1 is lazy, it ends at the first position where the rest matches;
\* the white space after the label is skipped and group 2 is the rest
GroupsFrom(s, gstart) ==
    LET qs == {q \in gstart..(Len(s) + 1) : TailEnd(s, q) # 0}
    IN  IF qs = {} THEN [matched |-> FALSE]
        ELSE LET q  == SetMin(qs)
                 e  == TailEnd(s, q)
                 ws == RunLength(s, e, Whitespace)
             IN  [matched |-> TRUE,
                  group1  |-> SubSeq(s, gstart, q - 1),
                  group2  |-> SubSeq(s, e + ws, Len(s))]

\* the optional "[" is greedy: the bracket is taken when there is one, and given back
\* only when no match follows
MatchAt(s, st) ==
    LET p0 == st + Len(ActionLabel)
    IN  IF ~IsAt(ActionLabel, s, st) THEN [matched |-> FALSE]
        ELSE IF p0 <= Len(s) /\ s[p0] = LBRACKET /\ GroupsFrom(s, p0 + 1).matched
             THEN GroupsFrom(s, p0 + 1)
             ELSE GroupsFrom(s, p0)

\* re.search: the match at the leftmost position that has one
RegexSearch(s) ==
    LET starts == {st \in 1..Len(s) : MatchAt(s, st).matched}
    IN  IF starts = {} THEN [matched |-> FALSE]
        ELSE MatchAt(s, SetMin(starts))

----------------------------------------------------------------------------
(* Agent._get_tool_and_input: the pair it returns, or the ValueError it    *)
(* raises                                                                  *)

\* mutant: the text after the first marker (split(...)[1] of a text with
\* one marker) instead of the last
FinalAnswerTextFirst(generated) ==
    LET occ == {i \in 1..Len(generated) : IsAt(FINAL_ANSWER_TOKEN, generated, i)}
    IN  Strip(SubSeq(generated, SetMin(occ) + Len(FINAL_ANSWER_TOKEN),
                     Len(generated)), Whitespace)

\* generated.split(FINAL_ANSWER_TOKEN)[-1].strip()
FinalAnswerText(generated) ==
    Strip(SplitLast(generated, FINAL_ANSWER_TOKEN), Whitespace)

ParsedToolName(group1) == Strip(group1, Whitespace)

\* mutant: only the quotes are stripped
ParsedToolInputQuotesOnly(group2) == Strip(group2, {QUOTE})

\* tool_input.strip(" ").strip('"')
ParsedToolInput(group2) == Strip(Strip(group2, {SP}), {QUOTE})

HasFinalAnswerToken(generated) == Contains(FINAL_ANSWER_TOKEN, generated)

\* mutant: the error does not carry the text
ParseErrorWithoutText(generated) ==
    [type |-> "ValueError", text |-> <<>>]

ParseError(generated) ==
    [type |-> "ValueError", text |-> generated]

get_tool_and_input(generated) ==
    IF HasFinalAnswerToken(generated)
    THEN [raised |-> FALSE, tool |-> FinalAnswerName,
          tool_input |-> FinalAnswerText(generated)]
    ELSE LET match == RegexSearch(generated)
         IN  IF ~match.matched
             THEN [raised |-> TRUE, error |-> ParseError(generated)]
             ELSE [raised |-> FALSE,
                   tool |-> ParsedToolName(match.group1),
                   tool_input |-> ParsedToolInput(match.group2)]

----------------------------------------------------------------------------
(* The surroundings of the agent: the tools it is constructed with, the    *)
(* texts the completion client returns and the results of the tools        *)

ProxyStatement == <<"Proxy", SP, "Statement">>

\* the tool lists an agent is constructed with, by the names of the tools
Registries == {{}, {ProxyStatement}, {ProxyStatement, FinalAnswerName}}

\* a thought, then an action of the registered tool (the shape of the
\* notebook's recorded output)
ToolCallText ==
    <<"x", NL>> \o ActionLabel \o ProxyStatement \o <<NL>>
        \o ActionInputLabel \o <<SP, "x">>
BracketedToolCallText ==
    ActionLabel \o <<LBRACKET>> \o ProxyStatement \o <<RBRACKET, NL>>
        \o ActionInputLabel \o <<SP, QUOTE, "y", QUOTE>>
UnknownToolText ==
    ActionLabel \o <<"Search", NL>> \o ActionInputLabel \o <<SP, "x">>
FinalText == <<"x", NL>> \o FINAL_ANSWER_TOKEN \o <<SP, "y">>
TwoFinalText ==
    FINAL_ANSWER_TOKEN \o <<SP, "x", NL>> \o FINAL_ANSWER_TOKEN \o <<SP, "y">>
ActionAndFinalText ==
    ActionLabel \o ProxyStatement \o <<NL>> \o ActionInputLabel
        \o <<SP, "x", NL>> \o FINAL_ANSWER_TOKEN \o <<SP, "y">>
FinalAnswerActionText ==
    ActionLabel \o FinalAnswerName \o <<NL>> \o ActionInputLabel \o <<SP, "x">>
UnparsableText == <<"x", SP, "y">>

Completions ==
    {ToolCallText, BracketedToolCallText, UnknownToolText, FinalText,
     TwoFinalText, ActionAndFinalText, FinalAnswerActionText, UnparsableText}

ToolResults == {<<"r">>, <<"s">>}

\* the exceptions of the collaborators
CompletionClientError == [type |-> "CompletionClientError"]
ToolFailure == [type |-> "ToolFailure"]
\* name_to_tool_map[tool] of a name that is not a key
KeyError(name) == [type |-> "KeyError", key |-> name]

----------------------------------------------------------------------------
(* Agent.run, expression by expression *)

\* mutants of the loop test: one iteration too many, one too few
LoopConditionOffByOne(n, m) == n <= m
LoopConditionStopsEarly(n, m) == n < m - 1

\* mutant: the loop runs until the counter meets the budget
LoopConditionUntilEqual(n, m) == n # m

\* while num_loops < self.max_loops
LoopCondition(n, m) == n < m

\* mutant: the name is compared with the marker
IsFinalAnswerMarker(t) == t = FINAL_ANSWER_TOKEN

\* if tool == 'Final Answer'
IsFinalAnswer(t) == t = FinalAnswerName

\* mutants: the raw completion, or the tool name, is returned
ReturnValueOutput(out, t, t_input) == out
ReturnValueToolName(out, t, t_input) == t

\* return tool_input
ReturnValue(out, t, t_input) == t_input

\* mutant: the lookup never fails
IsRegisteredAlways(t, registry) == TRUE

\* tool in name_to_tool_map
IsRegistered(t, registry) == t \in registry

\* mutant: the result of the tool comes before the output of the model
ObservationResultFirst(out, t_result) ==
    t_result \o <<NL>> \o OBSERVATION_TOKEN \o <<SP>> \o out
        \o <<NL>> \o THOUGHT_TOKEN

\* output += f"\n{OBSERVATION_TOKEN} {tool_result}\n{THOUGHT_TOKEN}"
Observation(out, t_result) ==
    out \o <<NL>> \o OBSERVATION_TOKEN \o <<SP>> \o t_result
        \o <<NL>> \o THOUGHT_TOKEN

\* prompt.format(previous_responses=('\n'.join(previous_responses)))
RenderedResponses(responses) == Join(responses)

\* mutant: the record is put in front
AppendedInFront(responses, record) == <<record>> \o responses

\* previous_responses.append(output)
Appended(responses, record) == Append(responses, record)

----------------------------------------------------------------------------
(* The prompt.  A replacement field of str.format is one token; the text   *)
(* of PROMPT_TEMPLATE between the fields is shortened to its labels.       *)

TOOL_DESCRIPTION_FIELD == "{tool_description}"
TOOL_NAMES_FIELD == "{tool_names}"
QUESTION_FIELD == "{question}"
PREVIOUS_RESPONSES_FIELD == "{previous_responses}"

Fields ==
    {TOOL_DESCRIPTION_FIELD, TOOL_NAMES_FIELD, QUESTION_FIELD,
     PREVIOUS_RESPONSES_FIELD}

QuestionLabel == <<"Question", ":", SP>>
ThoughtLabel == <<"Thought", ":", SP>>

PROMPT_TEMPLATE ==
    <<"Answer", SP, "using", SP, "tools", ":", NL, TOOL_DESCRIPTION_FIELD, NL>>
        \o ActionLabel \o <<"one", SP, "of", SP, LBRACKET, TOOL_NAMES_FIELD,
                            RBRACKET, NL>>
        \o QuestionLabel \o <<QUESTION_FIELD, NL>>
        \o ThoughtLabel \o <<PREVIOUS_RESPONSES_FIELD, NL>>

\* template.format(**bindings): every field is replaced by its value
RECURSIVE Format(_, _)
Format(template, bindings) ==
    IF template = <<>> THEN <<>>
    ELSE (IF Head(template) \in Fields
          THEN bindings[Head(template)]
          ELSE <<Head(template)>>) \o Format(Tail(template), bindings)

\* sep.join(seq)
RECURSIVE JoinWith(_, _)
JoinWith(seq, sep) ==
    IF seq = <<>> THEN <<>>
    ELSE IF Len(seq) = 1 THEN seq[1]
    ELSE seq[1] \o sep \o JoinWith(Tail(seq), sep)

\* the list of tools, by name, of a registry
ToolList(registry) ==
    SelectSeq(<<ProxyStatement, FinalAnswerName>>, LAMBDA n : n \in registry)

\* f"{tool.name}: {tool.description}"
ToolDescription(name) == name \o <<":", SP, "description">>

ToolDescriptions(registry) ==
    [i \in 1..Len(ToolList(registry)) |-> ToolDescription(ToolList(registry)[i])]

\* prompt = PROMPT_TEMPLATE.format(tool_description=..., tool_names=...,
\*     question=question, previous_responses='{previous_responses}')
BuildPrompt(registry, q) ==
    Format(PROMPT_TEMPLATE,
           [f \in Fields |->
               CASE f = TOOL_DESCRIPTION_FIELD ->
                        JoinWith(ToolDescriptions(registry), <<NL>>)
                 [] f = TOOL_NAMES_FIELD ->
                        JoinWith(ToolList(registry), <<",", SP>>)
                 [] f = QUESTION_FIELD -> q
                 [] f = PREVIOUS_RESPONSES_FIELD -> <<PREVIOUS_RESPONSES_FIELD>>])

\* the question of the notebook, and another one
NotebookQuestion ==
    <<"Who", SP, "are", SP, "the", SP, "director", SP, "nominees", "?">>
OtherQuestion == <<"Who", SP, "is", SP, "the", SP, "chair", "?">>
Questions == {NotebookQuestion, OtherQuestion}

\* curr_prompt = prompt.format(previous_responses=...): prompt is the global
\* of the notebook, the field self.prompt is not read
RenderedPrompt(global_prompt, field_prompt, responses) ==
    Format(global_prompt,
           [f \in {PREVIOUS_RESPONSES_FIELD} |-> RenderedResponses(responses)])

----------------------------------------------------------------------------
(* The state machine *)

\* the fields of the agent
fields == <<tools, max_loops, self_prompt>>

\* the counts and records kept of a run
counts == <<llm_calls, tool_calls, tool_returns>>
records == <<completions, prompts, tool_results>>

\* the notebook has built the prompt and constructed the agent:
\* agent = Agent(llm=llm, tools=tools, prompt=prompt, stop_pattern=...)
Constructed(registries, budgets) ==
    /\ tools \in registries
    /\ max_loops \in budgets
    /\ prompt = BuildPrompt(tools, NotebookQuestion)
    /\ self_prompt = prompt
    /\ question = <<>>
    /\ pc = "idle"
    /\ num_loops = 0
    /\ previous_responses = <<>>
    /\ curr_prompt = <<>>
    /\ output = <<>>
    /\ tool = <<>>
    /\ tool_input = <<>>
    /\ tool_result = <<>>
    /\ result = None
    /\ error = NoError
    /\ llm_calls = 0
    /\ tool_calls = 0
    /\ tool_returns = 0
    /\ completions = <<>>
    /\ prompts = <<>>
    /\ tool_results = <<>>
    /\ runs = 0
    /\ first_run = None

Init == Constructed(Registries, -1..MaxLoops)

\* run(question) is entered: name_to_tool_map, previous_responses = [],
\* num_loops = 0; the other locals of the call are not bound yet
Entered(q) ==
    /\ question' = q
    /\ previous_responses' = <<>>
    /\ num_loops' = 0
    /\ curr_prompt' = <<>>
    /\ output' = <<>>
    /\ tool' = <<>>
    /\ tool_input' = <<>>
    /\ tool_result' = <<>>
    /\ result' = None
    /\ error' = NoError
    /\ llm_calls' = 0
    /\ tool_calls' = 0
    /\ tool_returns' = 0
    /\ completions' = <<>>
    /\ prompts' = <<>>
    /\ tool_results' = <<>>
    /\ runs' = runs + 1
    /\ pc' = "while"
    /\ UNCHANGED <<fields, prompt>>

\* run is called
Run ==
    /\ pc = "idle"
    /\ \E q \in Questions : Entered(q)
    /\ UNCHANGED first_run

\* mutant: the counter is incremented by two
LoopEnterCountingTwice ==
    /\ pc = "while"
    /\ LoopCondition(num_loops, max_loops)
    /\ num_loops' = num_loops + 2
    /\ curr_prompt' = RenderedPrompt(prompt, self_prompt, previous_responses)
    /\ pc' = "generate"
    /\ UNCHANGED <<fields, previous_responses, output, tool, tool_input,
                   tool_result, result, error, counts, records, question,
                   prompt, runs, first_run>>

\* the while test holds: num_loops += 1 and the prompt is rendered
LoopEnter ==
    /\ pc = "while"
    /\ LoopCondition(num_loops, max_loops)
    /\ num_loops' = num_loops + 1
    /\ curr_prompt' = RenderedPrompt(prompt, self_prompt, previous_responses)
    /\ pc' = "generate"
    /\ UNCHANGED <<fields, previous_responses, output, tool, tool_input,
                   tool_result, result, error, counts, records, question,
                   prompt, runs, first_run>>

\* the while test fails: run falls out of the loop and returns None
LoopExit ==
    /\ pc = "while"
    /\ ~LoopCondition(num_loops, max_loops)
    /\ result' = None
    /\ pc' = "returned"
    /\ UNCHANGED <<fields, num_loops, previous_responses, curr_prompt, output,
                   tool, tool_input, tool_result, error, counts, records,
                   question, prompt, runs, first_run>>

\* _get_next_action: self.llm.generate returns a text
Generate ==
    /\ pc = "generate"
    /\ \E text \in Completions :
          /\ output' = text
          /\ completions' = Append(completions, text)
    /\ prompts' = Append(prompts, curr_prompt)
    /\ llm_calls' = llm_calls + 1
    /\ pc' = "parse"
    /\ UNCHANGED <<fields, num_loops, previous_responses, curr_prompt, tool,
                   tool_input, tool_result, result, error, tool_calls,
                   tool_returns, tool_results, question, prompt, runs,
                   first_run>>

\* _get_next_action: self.llm.generate raises
GenerateFails ==
    /\ pc = "generate"
    /\ prompts' = Append(prompts, curr_prompt)
    /\ llm_calls' = llm_calls + 1
    /\ error' = CompletionClientError
    /\ pc' = "raised"
    /\ UNCHANGED <<fields, num_loops, previous_responses, curr_prompt, output,
                   tool, tool_input, tool_result, result, tool_calls,
                   tool_returns, completions, tool_results, question, prompt,
                   runs, first_run>>

\* _get_next_action: self._get_tool_and_input(output) returns
Parse ==
    /\ pc = "parse"
    /\ ~get_tool_and_input(output).raised
    /\ tool' = get_tool_and_input(output).tool
    /\ tool_input' = get_tool_and_input(output).tool_input
    /\ pc' = "dispatch"
    /\ UNCHANGED <<fields, num_loops, previous_responses, curr_prompt, output,
                   tool_result, result, error, counts, records, question,
                   prompt, runs, first_run>>

\* _get_next_action: self._get_tool_and_input(output) raises ValueError,
\* which nothing in run catches
ParseFails ==
    /\ pc = "parse"
    /\ get_tool_and_input(output).raised
    /\ error' = get_tool_and_input(output).error
    /\ pc' = "raised"
    /\ UNCHANGED <<fields, num_loops, previous_responses, curr_prompt, output,
                   tool, tool_input, tool_result, result, counts, records,
                   question, prompt, runs, first_run>>

\* if tool == 'Final Answer': return tool_input
ReturnAnswer ==
    /\ pc = "dispatch"
    /\ IsFinalAnswer(tool)
    /\ result' = ReturnValue(output, tool, tool_input)
    /\ pc' = "returned"
    /\ UNCHANGED <<fields, num_loops, previous_responses, curr_prompt, output,
                   tool, tool_input, tool_result, error, counts, records,
                   question, prompt, runs, first_run>>

\* name_to_tool_map[tool] of an unknown name raises KeyError
LookupFails ==
    /\ pc = "dispatch"
    /\ ~IsFinalAnswer(tool)
    /\ ~IsRegistered(tool, tools)
    /\ error' = KeyError(tool)
    /\ pc' = "raised"
    /\ UNCHANGED <<fields, num_loops, previous_responses, curr_prompt, output,
                   tool, tool_input, tool_result, result, counts, records,
                   question, prompt, runs, first_run>>

\* mutant: the tool is called twice
InvokeToolTwice ==
    /\ pc = "dispatch"
    /\ ~IsFinalAnswer(tool)
    /\ IsRegistered(tool, tools)
    /\ tool_calls' = tool_calls + 2
    /\ pc' = "tool"
    /\ UNCHANGED <<fields, num_loops, previous_responses, curr_prompt, output,
                   tool, tool_input, tool_result, result, error, llm_calls,
                   tool_returns, records, question, prompt, runs, first_run>>

\* name_to_tool_map[tool].run(tool_input) is called
InvokeTool ==
    /\ pc = "dispatch"
    /\ ~IsFinalAnswer(tool)
    /\ IsRegistered(tool, tools)
    /\ tool_calls' = tool_calls + 1
    /\ pc' = "tool"
    /\ UNCHANGED <<fields, num_loops, previous_responses, curr_prompt, output,
                   tool, tool_input, tool_result, result, error, llm_calls,
                   tool_returns, records, question, prompt, runs, first_run>>

\* the tool returns: tool_result is bound
ToolReturns ==
    /\ pc = "tool"
    /\ \E r \in ToolResults :
          /\ tool_result' = r
          /\ tool_results' = Append(tool_results, r)
    /\ tool_returns' = tool_returns + 1
    /\ pc' = "observe"
    /\ UNCHANGED <<fields, num_loops, previous_responses, curr_prompt, output,
                   tool, tool_input, result, error, llm_calls, tool_calls,
                   completions, prompts, question, prompt, runs, first_run>>

\* the record is built, printed and appended
AppendResponse ==
    /\ pc = "observe"
    /\ output' = Observation(output, tool_result)
    /\ previous_responses' =
           Appended(previous_responses, Observation(output, tool_result))
    /\ pc' = "while"
    /\ UNCHANGED <<fields, num_loops, curr_prompt, tool, tool_input,
                   tool_result, result, error, counts, records, question,
                   prompt, runs, first_run>>

\* mutant: the failure of the tool is swallowed and the loop goes on
ToolFailsAndLoopGoesOn ==
    /\ pc = "tool"
    /\ error' = ToolFailure
    /\ pc' = "while"
    /\ UNCHANGED <<fields, num_loops, previous_responses, curr_prompt, output,
                   tool, tool_input, tool_result, result, counts, records,
                   question, prompt, runs, first_run>>

\* the tool raises, which nothing in run catches
ToolFails ==
    /\ pc = "tool"
    /\ error' = ToolFailure
    /\ pc' = "raised"
    /\ UNCHANGED <<fields, num_loops, previous_responses, curr_prompt, output,
                   tool, tool_input, tool_result, result, counts, records,
                   question, prompt, runs, first_run>>

Next ==
    \/ Run
    \/ LoopEnter
    \/ LoopExit
    \/ Generate
    \/ GenerateFails
    \/ Parse
    \/ ParseFails
    \/ ReturnAnswer
    \/ LookupFails
    \/ InvokeTool
    \/ ToolReturns
    \/ AppendResponse
    \/ ToolFails

Spec == Init /\ [][Next]_vars

----------------------------------------------------------------------------
(* A session of the notebook: the agent is run a second time, and the cell *)
(* that builds the global prompt is executed again with another question   *)

\* what is kept of the first call of run
RunRecord ==
    [question     |-> question,
     prompts      |-> prompts,
     completions  |-> completions,
     tool_results |-> tool_results,
     result       |-> result,
     error        |-> error]

\* result = agent.run(question), a second time
RunAgain ==
    /\ pc \in {"returned", "raised"}
    /\ runs = 1
    /\ first_run' = RunRecord
    /\ \E q \in Questions : Entered(q)

\* question = ...; prompt = PROMPT_TEMPLATE.format(...), between two runs
RebuildPrompt ==
    /\ pc \in {"returned", "raised"}
    /\ runs = 1
    /\ \E q \in Questions :
          /\ prompt' = BuildPrompt(tools, q)
          /\ prompt' # prompt
    /\ UNCHANGED <<fields, pc, num_loops, previous_responses, curr_prompt,
                   output, tool, tool_input, tool_result, result, error,
                   counts, records, question, runs, first_run>>

SessionInit == Constructed({{ProxyStatement}}, 1..MaxSessionLoops)

SessionNext == Next \/ RunAgain \/ RebuildPrompt

SessionSpec == SessionInit /\ [][SessionNext]_vars

----------------------------------------------------------------------------
(* The parser on its own: _get_tool_and_input applied to every text that    *)
(* is a concatenation of at most MaxChunks chunks                           *)

Chunks ==
    {ActionLabel, ActionInputLabel, FINAL_ANSWER_TOKEN, FinalAnswerName,
     <<SP>>, <<NL>>, <<"x">>}

RECURSIVE ChunkTexts(_)
ChunkTexts(n) ==
    IF n = 0 THEN {<<>>}
    ELSE LET shorter == ChunkTexts(n - 1)
         IN  {<<>>} \cup {t \o c : t \in shorter, c \in Chunks}

ParserState(texts) ==
    /\ tools = {ProxyStatement}
    /\ max_loops = 1
    /\ prompt = BuildPrompt(tools, NotebookQuestion)
    /\ self_prompt = prompt
    /\ question = NotebookQuestion
    /\ pc = "parse"
    /\ num_loops = 1
    /\ previous_responses = <<>>
    /\ curr_prompt = RenderedPrompt(prompt, self_prompt, previous_responses)
    /\ output \in texts
    /\ tool = <<>>
    /\ tool_input = <<>>
    /\ tool_result = <<>>
    /\ result = None
    /\ error = NoError
    /\ llm_calls = 1
    /\ tool_calls = 0
    /\ tool_returns = 0
    /\ completions = <<output>>
    /\ prompts = <<curr_prompt>>
    /\ tool_results = <<>>
    /\ runs = 1
    /\ first_run = None

ParseInit == ParserState(ChunkTexts(MaxChunks))

ParseNext == Parse \/ ParseFails

ParseSpec == ParseInit /\ [][ParseNext]_vars

----------------------------------------------------------------------------
(* The parser on the texts of the action grammar: the text of the spec's   *)
(* example, Action: [Search]\nAction Input: "hello", with every name field  *)
(* of at most MaxName characters and with every input field of at most      *)
(* MaxInput characters; and on the concatenations of chunks                 *)

NameChars == {SP, NL, LBRACKET, RBRACKET, "Search"}
InputChars == {SP, NL, QUOTE, "hello"}

RECURSIVE SeqsUpTo(_, _)
SeqsUpTo(alphabet, n) ==
    IF n = 0 THEN {<<>>}
    ELSE LET shorter == SeqsUpTo(alphabet, n - 1)
         IN  {<<>>} \cup {Append(t, c) : t \in shorter, c \in alphabet}

ExampleName == <<LBRACKET, "Search", RBRACKET, NL>>
ExampleInput == <<SP, QUOTE, "hello", QUOTE>>
ExampleText == ActionLabel \o ExampleName \o ActionInputLabel \o ExampleInput

GrammarTexts ==
    {ActionLabel \o name \o ActionInputLabel \o ExampleInput :
        name \in SeqsUpTo(NameChars, MaxName)}
    \cup
    {ActionLabel \o ExampleName \o ActionInputLabel \o input :
        input \in SeqsUpTo(InputChars, MaxInput)}

ActionInit == ParserState(GrammarTexts \cup ChunkTexts(MaxChunks))

ActionSpec == ActionInit /\ [][ParseNext]_vars

----------------------------------------------------------------------------
(* What the claims speak of *)

\* the outcome of parsing a text, as run tells the outcomes apart
ActionKind(text) ==
    LET parsed == get_tool_and_input(text)
    IN  IF parsed.raised THEN "ParseError"
        ELSE IF IsFinalAnswer(parsed.tool) THEN "FinalAnswer"
        ELSE "ToolCall"

\* the text parses as a ToolCall of a tool of the registry
IsRegisteredToolCall(text, registry) ==
    LET parsed == get_tool_and_input(text)
    IN  /\ ~parsed.raised
        /\ ~IsFinalAnswer(parsed.tool)
        /\ parsed.tool \in registry

\* the text matches the action grammar: an "Action: " label with an
\* "Action Input:" label somewhere after it
MatchesActionGrammar(text) ==
    \E i, j \in 1..Len(text) :
        /\ IsAt(ActionLabel, text, i)
        /\ IsAt(ActionInputLabel, text, j)
        /\ j >= i + Len(ActionLabel)

Ended == pc \in {"returned", "raised"}
Answered == pc = "returned" /\ result # None
Failed == pc = "raised"

LastCompletion == completions[Len(completions)]

\* the completion of the current iteration has been received
CompletionReceived ==
    /\ Len(completions) >= 1
    /\ Len(completions) = num_loops
    /\ llm_calls = num_loops

\* nothing was done in the current iteration but the completion call: each
\* earlier iteration invoked one tool and appended one record
NothingDoneThisIteration ==
    /\ llm_calls = num_loops
    /\ tool_calls = num_loops - 1
    /\ Len(previous_responses) = num_loops - 1

----------------------------------------------------------------------------
\* C1: whenever run returns a string, the completion of the current
\* iteration parsed as a FinalAnswer, the returned value is that
\* FinalAnswer's text, and in that iteration no tool was invoked and nothing
\* was appended to the transcript.
C1_AnswerOnlyThroughFinalAnswer ==
    Answered =>
        /\ CompletionReceived
        /\ ActionKind(LastCompletion) = "FinalAnswer"
        /\ result = get_tool_and_input(LastCompletion).tool_input
        /\ NothingDoneThisIteration

\* run has returned the answer of a FinalAnswer that came after a ToolCall
C1_Witness ==
    /\ Answered
    /\ LastCompletion = FinalText
    /\ result = <<"y">>
    /\ Len(previous_responses) = 1

----------------------------------------------------------------------------
\* every completion call of the run so far returned a ToolCall of a
\* registered tool
OnlyRegisteredToolCalls ==
    /\ pc # "idle"
    /\ Len(completions) = llm_calls
    /\ \A i \in 1..Len(completions) :
          IsRegisteredToolCall(completions[i], tools)

BudgetIterationsDone ==
    /\ pc = "returned"
    /\ num_loops = max_loops
    /\ llm_calls = max_loops
    /\ tool_calls = max_loops
    /\ Len(previous_responses) = max_loops

\* C2, as claimed: when the completion client returns a ToolCall of a
\* registered tool on every call, run ends after exactly max_loops
\* iterations, with exactly max_loops completion calls and never one more.
C2_Original ==
    OnlyRegisteredToolCalls =>
        /\ llm_calls <= max_loops
        /\ Ended => BudgetIterationsDone

\* C2, amended: the same for a budget that is not negative and tools that
\* return; once max_loops iterations are done the loop is not entered again.
C2_ExactlyBudgetIterations ==
    (max_loops >= 0 /\ error # ToolFailure /\ OnlyRegisteredToolCalls) =>
        /\ llm_calls <= max_loops
        /\ Ended => BudgetIterationsDone
        /\ (pc = "while" /\ Len(previous_responses) = max_loops) =>
               ~LoopCondition(num_loops, max_loops)

\* run has ended after MaxLoops ToolCall iterations
C2_Witness ==
    /\ OnlyRegisteredToolCalls
    /\ max_loops = MaxLoops
    /\ Ended
    /\ llm_calls = MaxLoops

----------------------------------------------------------------------------
\* C3, as claimed: in every state of a run num_loops is at most max_loops,
\* and so is the number of completion calls made.
C3_Original ==
    pc # "idle" => (num_loops <= max_loops /\ llm_calls <= max_loops)

NonNegative(n) == IF n < 0 THEN 0 ELSE n

\* C3, amended: in every state of a run num_loops is at most max_loops when
\* max_loops is not negative, and 0 when it is; the number of completion
\* calls made is at most num_loops.
C3_IterationsWithinBudget ==
    pc # "idle" =>
        /\ num_loops <= NonNegative(max_loops)
        /\ llm_calls <= num_loops

\* the budget is used up and the loop is at its test
C3_Witness ==
    /\ pc = "while"
    /\ max_loops = MaxLoops
    /\ num_loops = max_loops
    /\ llm_calls = max_loops

----------------------------------------------------------------------------
\* C4: when the budget is used up without a FinalAnswer, run surfaces an
\* explicit budget-exceeded outcome: it ends Answered (with a best-effort
\* answer) or Failed.
C4_BudgetExceededIsExplicit ==
    (Ended /\ max_loops >= 1 /\ num_loops = max_loops) => (Answered \/ Failed)

----------------------------------------------------------------------------
\* the completion of the current iteration is a ToolCall of a tool that is
\* not registered
UnknownToolCalled ==
    /\ CompletionReceived
    /\ ActionKind(LastCompletion) = "ToolCall"
    /\ ~IsRegisteredToolCall(LastCompletion, tools)

\* C5: a ToolCall whose name is not in the registry makes run fail at once
\* with an error that names the unknown tool: no tool is invoked in that
\* iteration, nothing is appended to the transcript and the completion
\* client is not called again.
C5_UnknownToolFails ==
    UnknownToolCalled =>
        /\ pc \in {"parse", "dispatch", "raised"}
        /\ pc = "raised" =>
              error = KeyError(get_tool_and_input(LastCompletion).tool)
        /\ pc # "raised" => error = NoError
        /\ result = None
        /\ NothingDoneThisIteration

\* run has failed on an unknown tool after a ToolCall of a registered one
C5_Witness ==
    /\ UnknownToolCalled
    /\ pc = "raised"
    /\ error = KeyError(<<"Search">>)
    /\ Len(previous_responses) = 1

----------------------------------------------------------------------------
\* the completion of the current iteration has neither the final-answer
\* marker nor a match of the action grammar
UnparsableReceived ==
    /\ CompletionReceived
    /\ ~Contains(FINAL_ANSWER_TOKEN, LastCompletion)
    /\ ~MatchesActionGrammar(LastCompletion)

\* C6: a text with neither the final-answer marker nor a match of the
\* action grammar makes parsing fail with an error that carries the whole
\* text; the error leaves run: no tool is invoked, the transcript is
\* unchanged and the completion client is not called again.
C6_ParseErrorEndsRun ==
    UnparsableReceived =>
        /\ pc \in {"parse", "raised"}
        /\ pc = "raised" =>
              (error.type = "ValueError" /\ error.text = LastCompletion)
        /\ pc # "raised" => error = NoError
        /\ result = None
        /\ NothingDoneThisIteration

\* run has failed on an unparsable text after a ToolCall iteration
C6_Witness ==
    /\ UnparsableReceived
    /\ pc = "raised"
    /\ error.type = "ValueError"
    /\ Len(previous_responses) = 1

----------------------------------------------------------------------------
\* the completion client has emitted k ToolCalls of registered tools and
\* then a FinalAnswer
ToolCallsThenFinalAnswer(k) ==
    /\ pc # "idle"
    /\ Len(completions) = k + 1
    /\ \A i \in 1..k : IsRegisteredToolCall(completions[i], tools)
    /\ ActionKind(completions[k + 1]) = "FinalAnswer"

\* C10: when the completion client emits k ToolCalls of registered tools and
\* then a FinalAnswer, with k < max_loops, run returns that FinalAnswer's
\* text, having called the completion client k + 1 times and the tools k
\* times.
C10_ToolCallsThenAnswer ==
    \A k \in 0..MaxLoops :
        /\ (ToolCallsThenFinalAnswer(k) /\ k < max_loops) =>
               /\ llm_calls = k + 1
               /\ tool_calls = k
               /\ pc \in {"parse", "dispatch", "returned"}
               /\ pc = "returned" =>
                     result = get_tool_and_input(completions[k + 1]).tool_input
               /\ pc # "returned" => (result = None /\ error = NoError)
        \* after k < max_loops ToolCalls the loop asks for the next completion
        /\ (pc = "while" /\ Len(completions) = k /\ k < max_loops
               /\ OnlyRegisteredToolCalls) =>
               LoopCondition(num_loops, max_loops)

\* the end-to-end scenario: one ToolCall of Proxy Statement, then a
\* FinalAnswer; two completion calls, one tool invocation
C10_Witness ==
    /\ ToolCallsThenFinalAnswer(1)
    /\ tools = {ProxyStatement}
    /\ completions = <<ToolCallText, FinalText>>
    /\ pc = "returned"
    /\ result = <<"y">>
    /\ llm_calls = 2
    /\ tool_calls = 1

----------------------------------------------------------------------------
\* the outcome of the parse that has been made of output
Parsed == pc # "parse"

ParsedKind ==
    IF pc = "raised" THEN "ParseError"
    ELSE IF IsFinalAnswer(tool) THEN "FinalAnswer"
    ELSE "ToolCall"

HasMarker(text) == Contains(FINAL_ANSWER_TOKEN, text)

\* C7: the three outcomes of parsing exclude each other and are decided by
\* the text: FinalAnswer if and only if the text contains the final-answer
\* marker, ToolCall if and only if it has no marker and matches the action
\* grammar, ParseError otherwise.
C7_OutcomesDecidedByText ==
    Parsed =>
        /\ ParsedKind = "FinalAnswer" <=> HasMarker(output)
        /\ ParsedKind = "ToolCall" <=>
              (~HasMarker(output) /\ MatchesActionGrammar(output))
        /\ ParsedKind = "ParseError" <=>
              (~HasMarker(output) /\ ~MatchesActionGrammar(output))

----------------------------------------------------------------------------
MarkerPositions(text) ==
    {i \in 1..Len(text) : IsAt(FINAL_ANSWER_TOKEN, text, i)}

\* the text after the last occurrence of the marker
AfterLastMarker(text) ==
    SubSeq(text, SetMax(MarkerPositions(text)) + Len(FINAL_ANSWER_TOKEN),
           Len(text))

\* r is t without its leading and its trailing white space
IsTrimOf(r, t) ==
    \E a, b \in 0..Len(t) :
        /\ a + b <= Len(t)
        /\ r = SubSeq(t, a + 1, Len(t) - b)
        /\ \A i \in 1..a : t[i] \in {SP, NL, TAB}
        /\ \A i \in (Len(t) - b + 1)..Len(t) : t[i] \in {SP, NL, TAB}
        /\ r # <<>> => (r[1] \notin {SP, NL, TAB} /\ r[Len(r)] \notin {SP, NL, TAB})

\* C8: for a text with the final-answer marker, the parsed answer is the
\* text after the last occurrence of the marker, without its leading and
\* trailing white space.
C8_LastOccurrence ==
    (Parsed /\ HasMarker(output)) =>
        /\ pc = "dispatch"
        /\ tool = FinalAnswerName
        /\ IsTrimOf(tool_input, AfterLastMarker(output))

\* a text with two markers has been parsed, and white space was trimmed
C8_Witness ==
    /\ Parsed
    /\ output = FINAL_ANSWER_TOKEN \o <<"x">> \o FINAL_ANSWER_TOKEN \o <<SP, "x">>
    /\ tool_input = <<"x">>

----------------------------------------------------------------------------
\* how many characters of chars t starts with, and ends with
LeadingCount(t, chars) ==
    Cardinality({i \in 1..Len(t) : \A k \in 1..i : t[k] \in chars})
TrailingCount(t, chars) ==
    Cardinality({i \in 1..Len(t) : \A k \in i..Len(t) : t[k] \in chars})

WithoutLeading(t, chars) == SubSeq(t, LeadingCount(t, chars) + 1, Len(t))
WithoutTrailing(t, chars) == SubSeq(t, 1, Len(t) - TrailingCount(t, chars))
WithoutSurrounding(t, chars) == WithoutTrailing(WithoutLeading(t, chars), chars)

\* t without the one character c it starts with, or ends with
WithoutFirst(t, c) == IF t # <<>> /\ t[1] = c THEN SubSeq(t, 2, Len(t)) ELSE t
WithoutLast(t, c) ==
    IF t # <<>> /\ t[Len(t)] = c THEN SubSeq(t, 1, Len(t) - 1) ELSE t

\* the first label of the text, and the first "Action Input:" at or after
\* position from
FirstAt(label, text, from) ==
    SetMin({k \in from..Len(text) : IsAt(label, text, k)})

\* the name after "Action:": the text between the first "Action:" and the
\* first "Action Input:" after it
NameAfterAction(text) ==
    LET i == FirstAt(<<"Action", ":">>, text, 1)
        j == FirstAt(ActionInputLabel, text, i + 2)
    IN  SubSeq(text, i + 2, j - 1)

\* the text after that "Action Input:"
TextAfterActionInput(text) ==
    LET i == FirstAt(<<"Action", ":">>, text, 1)
        j == FirstAt(ActionInputLabel, text, i + 2)
    IN  SubSeq(text, j + Len(ActionInputLabel), Len(text))

ActionGrammarParsed ==
    Parsed /\ ~HasMarker(output) /\ MatchesActionGrammar(output)

\* C9, as claimed: for every text that matches the action grammar, the
\* parsed tool name is the name after "Action:" with its surrounding white
\* space and its surrounding brackets removed, and the parsed tool input is
\* the text after "Action Input:" with its leading spaces and its
\* surrounding quote characters removed.  (Read in the code's favour: a
\* text with the final-answer marker is left out, white space left by the
\* brackets is removed too, and "spaces" are white space of any kind.)
C9_Original ==
    ActionGrammarParsed =>
        /\ pc = "dispatch"
        /\ tool = WithoutSurrounding(
                      WithoutLast(WithoutFirst(
                          WithoutSurrounding(NameAfterAction(output),
                                             {SP, NL, TAB}),
                          LBRACKET), RBRACKET),
                      {SP, NL, TAB})
        /\ tool_input = WithoutSurrounding(
                            WithoutLeading(TextAfterActionInput(output),
                                           {SP, NL, TAB}),
                            {QUOTE})

\* the name field: the text between the first "Action: " (with its space)
\* and the first "Action Input:" after it; the input field: the text after
\* that "Action Input:"
NameField(text) ==
    LET i == FirstAt(ActionLabel, text, 1)
        j == FirstAt(ActionInputLabel, text, i + Len(ActionLabel))
    IN  SubSeq(text, i + Len(ActionLabel), j - 1)

InputField(text) ==
    LET i == FirstAt(ActionLabel, text, 1)
        j == FirstAt(ActionInputLabel, text, i + Len(ActionLabel))
    IN  SubSeq(text, j + Len(ActionInputLabel), Len(text))

\* C9, amended: for every text without the final-answer marker that matches
\* the action grammar, the parsed tool name is the name field without one
\* "[" at its very start, without the newlines at its end and one "]" right
\* before them, and then without its surrounding white space; the parsed
\* tool input is the input field without its leading white space, then
\* without its trailing spaces, then without its leading and trailing quote
\* characters.
C9_NameAndInputAsParsed ==
    ActionGrammarParsed =>
        /\ pc = "dispatch"
        /\ tool = WithoutSurrounding(
                      WithoutLast(
                          WithoutTrailing(
                              WithoutFirst(NameField(output), LBRACKET),
                              {NL}),
                          RBRACKET),
                      {SP, NL, TAB})
        /\ tool_input = WithoutSurrounding(
                            WithoutTrailing(
                                WithoutLeading(InputField(output),
                                               {SP, NL, TAB}),
                                {SP}),
                            {QUOTE})

\* the spec's example has been parsed: name Search, input hello
C9_Witness ==
    /\ ActionGrammarParsed
    /\ output = ExampleText
    /\ tool = <<"Search">>
    /\ tool_input = <<"hello">>

----------------------------------------------------------------------------
\* responses' is responses, or responses with one record more at its end
UnchangedOrExtended(before, after) ==
    \/ after = before
    \/ /\ Len(after) = Len(before) + 1
       /\ SubSeq(after, 1, Len(before)) = before

\* C11: within one run the transcript is append-only: every step of the loop
\* leaves previous_responses unchanged or extends it by exactly one record at
\* its end; no record is modified, reordered or removed.
C11_TranscriptAppendOnly ==
    [][runs' = runs =>
          UnchangedOrExtended(previous_responses, previous_responses')]_vars

\* two records have been appended, one after the other
C11_Witness ==
    /\ Len(previous_responses) = 2
    /\ previous_responses[1] # previous_responses[2]

----------------------------------------------------------------------------
\* C12: every prompt sent to the completion client during run(question)
\* embeds the question that was passed to that call of run.
C12_PromptEmbedsQuestion ==
    \A i \in 1..Len(prompts) : Contains(question, prompts[i])

----------------------------------------------------------------------------
\* what the collaborators did in a run: the texts of the completion client,
\* the results of the tools and the failure of either
CollaboratorFailure(e) ==
    IF e \in {CompletionClientError, ToolFailure} THEN e ELSE NoError

SameScriptAsFirstRun ==
    /\ question = first_run.question
    /\ completions = first_run.completions
    /\ tool_results = first_run.tool_results
    /\ CollaboratorFailure(error) = CollaboratorFailure(first_run.error)

SecondRunStarts == runs = 2 /\ pc = "while" /\ llm_calls = 0

\* C13: runs are independent: a second run on the same agent starts with an
\* empty transcript and num_loops = 0, and with the same question and the
\* same scripted completion client and tools it sends the same sequence of
\* prompts and returns the same result as the first run.
C13_RunsIndependent ==
    /\ SecondRunStarts => (previous_responses = <<>> /\ num_loops = 0)
    /\ (runs = 2 /\ Ended /\ SameScriptAsFirstRun) =>
           /\ prompts = first_run.prompts
           /\ result = first_run.result
           /\ error = first_run.error

----------------------------------------------------------------------------
\* t is made of the parts, in their order, with nothing but white space
\* between them
RECURSIVE InOrder(_, _)
InOrder(t, parts) ==
    IF parts = <<>> THEN t = <<>>
    ELSE /\ IsAt(Head(parts), t, 1)
         /\ LET rest == SubSeq(t, Len(Head(parts)) + 1, Len(t))
            IN  IF Len(parts) = 1 THEN rest = <<>>
                ELSE InOrder(WithoutLeading(rest, {SP, NL, TAB}), Tail(parts))

\* the records 1..n of the transcript in iteration order, joined by newlines
RECURSIVE RecordsInOrder(_)
RecordsInOrder(n) ==
    IF n = 0 THEN <<>>
    ELSE IF n = 1 THEN previous_responses[1]
    ELSE RecordsInOrder(n - 1) \o <<NL>> \o previous_responses[n]

\* t ends with suffix
EndsWith(t, suffix) == IsAt(suffix, t, Len(t) - Len(suffix) + 1)

\* C14: the record appended by a ToolCall iteration is the raw model output,
\* then the observation marker, then the tool's result, then a thought
\* marker, in that order; and the prior-responses context of the prompt of
\* iteration n + 1 is the records of iterations 1..n in iteration order,
\* joined by newlines.
C14_RecordAndContext ==
    /\ \A i \in 1..Len(previous_responses) :
          InOrder(previous_responses[i],
                  <<completions[i], OBSERVATION_TOKEN, tool_results[i],
                    THOUGHT_TOKEN>>)
    /\ \A n \in 0..(Len(prompts) - 1) :
          EndsWith(prompts[n + 1],
                   ThoughtLabel \o RecordsInOrder(n) \o <<NL>>)

\* the third prompt has been sent, with two records as its context
C14_Witness ==
    /\ Len(prompts) = 3
    /\ previous_responses =
           <<ToolCallText \o <<NL, "Observation", ":", SP, "r", NL,
                               "Thought", ":">>,
             BracketedToolCallText \o <<NL, "Observation", ":", SP, "s", NL,
                                        "Thought", ":">>>>

----------------------------------------------------------------------------
\* the template in the agent's field with the transcript put in
RenderedFromField(responses) ==
    Format(self_prompt,
           [f \in {PREVIOUS_RESPONSES_FIELD} |-> RenderedResponses(responses)])

\* C17: the prompt template is fixed at construction: every prompt sent
\* during a run is rendered from the agent's prompt field, whatever happens
\* to state outside the agent after construction.
C17_PromptRenderedFromField ==
    \A i \in 1..Len(prompts) :
        i - 1 <= Len(previous_responses) =>
            prompts[i] = RenderedFromField(SubSeq(previous_responses, 1, i - 1))

----------------------------------------------------------------------------
\* the order of the calls in a step of a run
CallsInOrder ==
    \* a completion call is made when every earlier iteration has made its
    \* one tool invocation and its one append
    /\ llm_calls' # llm_calls =>
          /\ llm_calls' = llm_calls + 1
          /\ tool_calls = llm_calls
          /\ tool_returns = llm_calls
          /\ Len(previous_responses) = llm_calls
    \* a tool is invoked once, after the completion call of its iteration,
    \* whose text parsed as a ToolCall of a registered tool
    /\ tool_calls' # tool_calls =>
          /\ tool_calls' = tool_calls + 1
          /\ llm_calls = tool_calls + 1
          /\ Len(completions) = llm_calls
          /\ IsRegisteredToolCall(LastCompletion, tools)
    \* a record is appended after the tool invocation of its iteration
    /\ previous_responses' # previous_responses =>
          /\ Len(previous_responses') = Len(previous_responses) + 1
          /\ tool_returns = Len(previous_responses) + 1
          /\ tool_calls = tool_returns
          /\ llm_calls = tool_calls

\* C15: each iteration makes exactly one completion call, then (only when
\* its text parsed as a ToolCall of a registered tool) exactly one tool
\* invocation, then one append, before the next completion call; a tool is
\* never invoked without a completion call before it in the same iteration,
\* and never twice without a completion call in between.
C15_ThinkActObserve == [][runs' = runs => CallsInOrder]_vars

\* the third completion call has been made, after two tool invocations and
\* two appends
C15_Witness ==
    /\ pc = "parse"
    /\ llm_calls = 3
    /\ tool_calls = 2
    /\ Len(previous_responses) = 2

----------------------------------------------------------------------------
CollaboratorFailed == error \in {CompletionClientError, ToolFailure}

\* C16: no failure is retried: when a completion call or a tool invocation
\* fails, the run ends with that failure; the failed call is the last call
\* of the run, and after it no call is made and nothing is appended.
C16_NoRetry ==
    /\ [](CollaboratorFailed =>
            /\ pc = "raised"
            /\ result = None
            /\ error = CompletionClientError =>
                  /\ llm_calls = Len(completions) + 1
                  /\ tool_calls = Len(completions)
                  /\ tool_returns = tool_calls
                  /\ Len(previous_responses) = tool_returns
            /\ error = ToolFailure =>
                  /\ llm_calls = Len(completions)
                  /\ tool_calls = llm_calls
                  /\ tool_returns = tool_calls - 1
                  /\ Len(previous_responses) = tool_returns)
    /\ [][(CollaboratorFailed /\ runs' = runs) =>
             UNCHANGED <<llm_calls, tool_calls, previous_responses>>]_vars

\* a tool has failed in the second iteration of a run
C16_Witness ==
    /\ error = ToolFailure
    /\ pc = "raised"
    /\ Len(previous_responses) = 1
    /\ tool_calls = 2

----------------------------------------------------------------------------
\* C18, as claimed: in every reachable state the number of tool invocations
\* completed is the transcript length, the number of completion calls made
\* is num_loops, and num_loops is the transcript length or that plus one.
C18_Original ==
    pc # "idle" =>
        /\ tool_returns = Len(previous_responses)
        /\ llm_calls = num_loops
        /\ num_loops \in {Len(previous_responses), Len(previous_responses) + 1}

\* C18, amended: the number of tool invocations completed is the transcript
\* length, and one more between the return of a tool and the append of its
\* record; the number of completion calls made is num_loops, and one less
\* between the increment of num_loops and the completion call; num_loops is
\* the transcript length or that plus one.
C18_Counts ==
    pc # "idle" =>
        /\ tool_returns =
               Len(previous_responses) + (IF pc = "observe" THEN 1 ELSE 0)
        /\ llm_calls = num_loops - (IF pc = "generate" THEN 1 ELSE 0)
        /\ num_loops \in {Len(previous_responses), Len(previous_responses) + 1}

\* a tool has returned in the second iteration and its record is not
\* appended yet
C18_Witness ==
    /\ pc = "observe"
    /\ tool_returns = 2
    /\ Len(previous_responses) = 1
    /\ llm_calls = 2

----------------------------------------------------------------------------
\* C19: with max_loops zero or negative, run makes no completion call and no
\* tool invocation, and ends without an answer: the loop is not entered and
\* run returns None.
C19_NoBudgetNoCalls ==
    (max_loops <= 0 /\ pc # "idle") =>
        /\ pc \in {"while", "returned"}
        /\ pc = "while" => ~LoopCondition(num_loops, max_loops)
        /\ llm_calls = 0
        /\ tool_calls = 0
        /\ result = None
        /\ error = NoError

\* a run with a negative budget has ended
C19_Witness ==
    /\ max_loops = -1
    /\ pc = "returned"
    /\ result = None
    /\ runs = 1

----------------------------------------------------------------------------
\* the completion of the current iteration parsed with the name Final Answer
ParsedFinalAnswerName ==
    /\ CompletionReceived
    /\ LET parsed == get_tool_and_input(LastCompletion)
       IN  ~parsed.raised /\ parsed.tool = FinalAnswerName

\* C20: run never dispatches a tool whose parsed name is the literal
\* Final Answer: whenever the parser yields that name, by either branch, run
\* returns the parsed input as the answer and invokes no tool, also when a
\* tool of that name is registered.
C20_FinalAnswerNeverDispatched ==
    /\ pc \in {"tool", "observe"} => tool # FinalAnswerName
    /\ ParsedFinalAnswerName =>
          /\ pc \in {"parse", "dispatch", "returned"}
          /\ pc = "returned" =>
                result = get_tool_and_input(LastCompletion).tool_input
          /\ tool_calls = num_loops - 1
          /\ error = NoError

\* a text without the marker named the registered tool Final Answer, and run
\* returned its input
C20_Witness ==
    /\ tools = {ProxyStatement, FinalAnswerName}
    /\ pc = "returned"
    /\ ParsedFinalAnswerName
    /\ LastCompletion = FinalAnswerActionText
    /\ result = <<"x">>
    /\ tool_calls = 0

=============================================================================
